---- MODULE Spec2Model ----
(***************************************************************************)
(* pypeliner: the scheduler control loop (pypeliner/scheduler.py) driving  *)
(* job instances (pypeliner/jobs.py) over a dependency graph, a resource   *)
(* shelf and an execution queue.                                           *)
(*                                                                         *)
(* scheduler.py reads job.out_of_date, job.output_missing and              *)
(* job.temps_dir as attributes of the job instance; they are modelled by   *)
(* the verdicts of JobInstance.out_of_date / output_missing of jobs.py and *)
(* by one temps directory per job instance.  graph.WorkflowInstance, the   *)
(* resource manager and the execution queue are not part of the sources;   *)
(* they are modelled from their documented interface.                      *)
(***************************************************************************)
EXTENDS Integers, FiniteSets, Sequences, TLC

\* ------------------------------------------------------------------ bounds
\* number of Scheduler.run calls on the same pipeline directory
MaxRuns == 2
\* number of changes the user makes to files between runs
MaxEnv == 1
\* largest exec-queue capacity (Scheduler.max_jobs) tried
MaxJobsBound == 2
\* largest num_retry of a job context
MaxNumRetry == 2
\* number of JobInstance.retry calls made on one job instance
MaxCalls == 3
\* largest createtime of a resource when out_of_date is evaluated on its own
MaxTime == 2
\* number of scheduler processes sharing one pipeline directory
NProcs == 2
\* number of Scheduler.run calls of one process on the shared directory
MaxLockRuns == 2
\* chunks an axis can have and splits observed when definitions are instantiated
MaxChunks == 2
MaxEmits == 3
\* largest file content and number of overwrite_if_different calls
MaxContent == 3
MaxOverwrites == 2

\* ------------------------------------------------------- workflow inputs
JobIds == {"step1", "step2", "step3"}
Resources == {"in", "a", "b", "out"}
\* createtime of a resource without a record
None == -1

\* The workflow definitions run by the model: each job's input and output
\* resources.  chain is test_rerun_simple; gensink has a job without inputs
\* (test_tempfile, test_simple_chunks1) and a job without outputs.
Workflows ==
  [ chain   |-> [ inputs  |-> [step1 |-> {"in"}, step2 |-> {"a"}, step3 |-> {"b"}],
                  outputs |-> [step1 |-> {"a"}, step2 |-> {"b"}, step3 |-> {"out"}] ],
    fanin   |-> [ inputs  |-> [step1 |-> {"in"}, step2 |-> {"in"}, step3 |-> {"a", "b"}],
                  outputs |-> [step1 |-> {"a"}, step2 |-> {"b"}, step3 |-> {"out"}] ],
    fanout  |-> [ inputs  |-> [step1 |-> {"in"}, step2 |-> {"a"}, step3 |-> {"a"}],
                  outputs |-> [step1 |-> {"a"}, step2 |-> {"b"}, step3 |-> {"out"}] ],
    gensink |-> [ inputs  |-> [step1 |-> {}, step2 |-> {"a"}, step3 |-> {"b"}],
                  outputs |-> [step1 |-> {"a"}, step2 |-> {"b"}, step3 |-> {}] ] ]

\* Job contexts: the tests' ctx, and a context asking for one retry with a
\* scaling entry.
CtxSet ==
  { [mem |-> 1],
    [mem |-> 1, num_retry |-> 1, mem_retry_factor |-> 2] }

VARIABLES
  wf,              \* name of the workflow definition passed to run
  def_ctx,         \* JobDefinition.ctx shared by the definitions
  max_jobs,        \* Scheduler.max_jobs
  rerun,           \* Scheduler.rerun
  repopulate,      \* Scheduler.repopulate
  pc,              \* position of Scheduler.run: idle, add, wait, drain
  failing,         \* local of Scheduler.run
  lock,            \* db/lock directory exists
  job_temps_dirs,  \* Scheduler._job_temps_dirs
  exec_queue,      \* jobs held by the execution queue
  popped,          \* graph: jobs handed out by pop_next_job in this run
  completed,       \* graph: jobs notified completed in this run
  job_shelf,       \* job-completion shelf: displayname -> bool
  createtime,      \* resource shelf: createtime of each resource
  exists,          \* the resource's file exists
  clock,           \* current time
  tick,            \* time that passes between two finalizations of this run
  ctx,             \* JobInstance.ctx of each job instance
  retry_idx,       \* JobInstance.retry_idx of each job instance
  hist,            \* observations of the runs (not program state)
  is_required_downstream,  \* JobInstance.is_required_downstream
  ood,             \* last evaluation of out_of_date / explain_out_of_date
  rt,              \* observations of retry calls and attempts per instance
  procs,           \* scheduler processes sharing the pipeline directory
  cleanup,         \* Scheduler.cleanup
  chunks,          \* node shelf: chunk set of each axis
  instances,       \* graph: the job instances of the workflow instance
  made,            \* observations of create_job_instances per definition
  fs,              \* the two files of overwrite_if_different
  callables        \* the JobCallable of each job instance, as its worker runs it

vars == << wf, def_ctx, max_jobs, rerun, repopulate, pc, failing, lock,
           job_temps_dirs, exec_queue, popped, completed, job_shelf,
           createtime, exists, clock, tick, ctx, retry_idx, hist,
           is_required_downstream, ood, rt, procs, cleanup, chunks, instances,
           made, fs, callables >>

settings == << wf, def_ctx, max_jobs, cleanup >>
\* state outside a single Scheduler.run of one process
outside == << is_required_downstream, ood, rt, procs, made, fs, callables >>
config == << settings, outside >>

\* Workflows and a shape whose jobs have several inputs and several outputs
\* (test_multiple_file_split), used where a job instance is looked at alone
Shapes ==
  Workflows @@
  [ multi |-> [ inputs  |-> [step1 |-> {"in", "a"}, step2 |-> {"in"},
                             step3 |-> {"in", "a", "b"}],
                outputs |-> [step1 |-> {"b", "out"}, step2 |-> {"a", "b", "out"},
                             step3 |-> {"out"}] ] ]
  @@
  \* step1 splits the input on an axis; step2 and step3 are the instances of
  \* one definition over that axis, for chunk 1 and chunk 2
  [ split     |-> [ inputs  |-> [step1 |-> {"in"}, step2 |-> {"a"}, step3 |-> {"b"}],
                    outputs |-> [step1 |-> {"a", "b"}, step2 |-> {"out"}, step3 |-> {}] ],
    \* as split, but the two instances depend on each other
    latecycle |-> [ inputs  |-> [step1 |-> {"in"}, step2 |-> {"a", "out"}, step3 |-> {"b"}],
                    outputs |-> [step1 |-> {"a"}, step2 |-> {"b"}, step3 |-> {"out"}] ],
    \* test_cycle: the first job consumes what the last one produces
    cyclic    |-> [ inputs  |-> [step1 |-> {"in", "out"}, step2 |-> {"a"}, step3 |-> {"b"}],
                    outputs |-> [step1 |-> {"a"}, step2 |-> {"b"}, step3 |-> {"out"}] ],
    \* a temporary with two consumers, every temporary consumed
    diamond   |-> [ inputs  |-> [step1 |-> {"in"}, step2 |-> {"a"}, step3 |-> {"a", "b"}],
                    outputs |-> [step1 |-> {"a"}, step2 |-> {"b"}, step3 |-> {"out"}] ],
    \* fanout with step2 and step3 given the same temps directory
    samedir   |-> [ inputs  |-> [step1 |-> {"in"}, step2 |-> {"a"}, step3 |-> {"a"}],
                    outputs |-> [step1 |-> {"a"}, step2 |-> {"b"}, step3 |-> {"out"}] ] ]

\* the axes, the axis split by step1 of the split shapes, and the chunks the
\* instances step2 and step3 stand for
Axes == {"byline_a", "byline_b"}
SplitAxis == "byline_a"
SplitShapes == {"split", "latecycle"}
GraphChunks == {1, 2}
\* temporary resources (ofile/ifile); "in" and "out" are user files
Temps == {"a", "b"}

Inputs(j) == Shapes[wf].inputs[j]
Outputs(j) == Shapes[wf].outputs[j]

Max(S) == CHOOSE x \in S : \A y \in S : y <= x
Min(S) == CHOOSE x \in S : \A y \in S : x <= y

\* ------------------------------------------------------------ jobs.py
\* dict.get(key, default)
Get(c, key, default) == IF key \in DOMAIN c THEN c[key] ELSE default

out_of_date_newest(j) ==
  LET input_dates == { createtime[r] : r \in Inputs(j) }
      output_dates == { createtime[r] : r \in Outputs(j) }
  IN  IF input_dates = {} \/ output_dates = {} THEN TRUE
      ELSE IF None \in output_dates THEN TRUE
      ELSE Max(input_dates) > Max(output_dates)

out_of_date_nonempty(j) ==
  LET input_dates == { createtime[r] : r \in Inputs(j) }
      output_dates == { createtime[r] : r \in Outputs(j) }
  IN  IF input_dates = {} \/ output_dates = {} THEN FALSE
      ELSE IF None \in output_dates THEN TRUE
      ELSE Max(input_dates) > Min(output_dates)

out_of_date_ge(j) ==
  LET input_dates == { createtime[r] : r \in Inputs(j) }
      output_dates == { createtime[r] : r \in Outputs(j) }
  IN  IF input_dates = {} \/ output_dates = {} THEN TRUE
      ELSE IF None \in output_dates THEN TRUE
      ELSE Max(input_dates) >= Min(output_dates)

\* JobInstance.out_of_date
out_of_date(j) ==
  LET input_dates == { createtime[r] : r \in Inputs(j) }
      output_dates == { createtime[r] : r \in Outputs(j) }
  IN  IF input_dates = {} \/ output_dates = {} THEN TRUE
      ELSE IF None \in output_dates THEN TRUE
      ELSE Max(input_dates) > Min(output_dates)

\* JobInstance.explain_out_of_date: the first line of the explanation, the
\* inputs marked "new", the outputs marked "old" and those marked "missing"
explain_out_of_date(j) ==
  LET input_dates == { createtime[r] : r \in Inputs(j) }
      output_dates == { createtime[r] : r \in Outputs(j) }
      newest_input_date == IF input_dates = {} THEN None ELSE Max(input_dates)
      oldest_output_date == IF output_dates = {} THEN None ELSE Min(output_dates)
  IN  [headline |->
         IF input_dates = {} /\ output_dates = {} THEN "no inputs/outputs: always run"
         ELSE IF input_dates = {} THEN "no inputs: always run"
         ELSE IF output_dates = {} THEN "no outputs: always run"
         ELSE IF None \in output_dates THEN "missing outputs"
         ELSE IF newest_input_date > oldest_output_date THEN "out of date outputs"
         ELSE IF is_required_downstream[j] THEN "outputs required by downstream job"
         ELSE "up to date",
       new |-> { r \in Inputs(j) :
                 oldest_output_date # None /\ createtime[r] > oldest_output_date },
       old |-> { r \in Outputs(j) :
                 /\ createtime[r] # None
                 /\ newest_input_date # None
                 /\ createtime[r] < newest_input_date },
       missing |-> { r \in Outputs(j) : ~ exists[r] }]

\* JobInstance.output_missing
output_missing(j) == ~ (\A r \in Outputs(j) : exists[r])

\* one temps directory per job instance (node subdir and job name); two
\* definitions of the same name share it
temps_dir(j) == IF wf = "samedir" /\ j \in {"step2", "step3"} THEN "step2" ELSE j

\* JobDefinition.axes of the definition of j, and the node of instance j
JobDefAxes(j) ==
  IF wf \in SplitShapes /\ j \in {"step2", "step3"} THEN {SplitAxis} ELSE {}
JobNode(j) ==
  IF JobDefAxes(j) = {} THEN << >>
  ELSE [a \in {SplitAxis} |-> IF j = "step2" THEN 1 ELSE 2]

\* NodeManager.retrieve_nodes: one node per element of the product of the
\* chunk sets ch of the axes; nothing when an axis has no chunks
retrieve_nodes(ch, axes) ==
  IF axes = {} THEN { << >> }
  ELSE { n \in [axes -> UNION { ch[a] : a \in axes }] : \A a \in axes : n[a] \in ch[a] }

create_job_instances_root(ch, axes) == { [axes |-> axes, node |-> << >>] }

\* JobDefinition.create_job_instances: one JobInstance per node
create_job_instances(ch, axes) ==
  { [axes |-> axes, node |-> n] : n \in retrieve_nodes(ch, axes) }

\* JobInstance.check_require_regenerate: an argument of the job is a split
check_require_regenerate(j) == wf \in SplitShapes /\ j = "step1"

\* keys of a context that scale a metric on retry, and the metric they scale
FactorKeys == [mem_retry_factor |-> "mem"]
IncrementKeys == [mem_retry_increment |-> "mem"]

\* the context entries the loop of JobInstance.retry applies
ScalingKeys(c) == DOMAIN c \cap (DOMAIN FactorKeys \cup DOMAIN IncrementKeys)

retry_result_any(j) == retry_idx[j] < Get(ctx[j], "num_retry", 0)

\* the value JobInstance.retry returns for job instance j: False when the
\* budget is used up, else the flag "updated" of the loop
retry_result(j) ==
  /\ retry_idx[j] < Get(ctx[j], "num_retry", 0)
  /\ ScalingKeys(ctx[j]) # {}

apply_entry_add(c, key) ==
  IF key \in DOMAIN FactorKeys
  THEN [c EXCEPT ![FactorKeys[key]] = @ + c[key]]
  ELSE [c EXCEPT ![IncrementKeys[key]] = @ + c[key]]

\* one pass of the loop body of JobInstance.retry, for a scaling entry
apply_entry(c, key) ==
  IF key \in DOMAIN FactorKeys
  THEN [c EXCEPT ![FactorKeys[key]] = @ * c[key]]
  ELSE [c EXCEPT ![IncrementKeys[key]] = @ + c[key]]

RECURSIVE apply_entries(_, _, _)
\* the loop of JobInstance.retry over the scaling entries from position i
apply_entries(c, order, i) ==
  IF i \notin DOMAIN order THEN c
  ELSE apply_entries(apply_entry(c, order[i]), order, i + 1)

\* the orders in which ctx.iteritems() can yield the scaling entries: the
\* order of a dict is not fixed by the language
iteritems(c) ==
  { order \in [1..Cardinality(ScalingKeys(c)) -> ScalingKeys(c)] :
      \A x, y \in DOMAIN order : x # y => order[x] # order[y] }

retry_unbounded(j) ==
  /\ retry_idx' = [retry_idx EXCEPT ![j] = @ + 1]
  /\ \E order \in iteritems(ctx[j]) :
       ctx' = [ctx EXCEPT ![j] = apply_entries(ctx[j], order, 1)]

retry_shared(j) ==
  IF retry_idx[j] >= Get(ctx[j], "num_retry", 0)
  THEN UNCHANGED << ctx, retry_idx >>
  ELSE /\ retry_idx' = [retry_idx EXCEPT ![j] = @ + 1]
       /\ \E order \in iteritems(ctx[j]) :
            ctx' = [k \in JobIds |-> apply_entries(ctx[j], order, 1)]

\* JobInstance.retry: the state change of the job instance
retry(j) ==
  IF retry_idx[j] >= Get(ctx[j], "num_retry", 0)
  THEN UNCHANGED << ctx, retry_idx >>
  ELSE /\ retry_idx' = [retry_idx EXCEPT ![j] = @ + 1]
       /\ \E order \in iteritems(ctx[j]) :
            ctx' = [ctx EXCEPT ![j] = apply_entries(ctx[j], order, 1)]

create_exc_dir_first(j) == 0

\* JobInstance.create_exc_dir: the index of the directory exc<retry_idx>
create_exc_dir(j) == retry_idx[j]

\* ------------------------------------------------- graph (WorkflowInstance)
\* for every workflow, the jobs producing an input of each job
Producers ==
  [w \in DOMAIN Shapes |->
     [j \in JobIds |->
        { p \in JobIds : Shapes[w].outputs[p] \cap Shapes[w].inputs[j] # {} }]]

\* the jobs producing an input of j
Upstream(j) == Producers[wf][j]

\* the job instances the graph holds for the chunk sets ch
built(ch) ==
  { j \in JobIds :
      [axes |-> JobDefAxes(j), node |-> JobNode(j)]
        \in create_job_instances(ch, JobDefAxes(j)) }

\* the instances of I that j depends on, directly or not
Ancestors(I, j) ==
  LET up(S) == UNION { Upstream(k) \cap I : k \in S }
      up1 == up({j})
      up2 == up(up1)
      up3 == up(up2)
  IN  up1 \cup up2 \cup up3

\* regenerate step 4: the graph over the instances I has a back edge
DependencyCycle(I) == \E j \in I : j \in Ancestors(I, j)

\* j can be handed out: instantiated, not handed out yet, every producer
\* among the instances completed
ready(j) ==
  /\ j \in instances
  /\ j \notin popped
  /\ \A p \in Upstream(j) \cap instances : p \in completed

\* WorkflowInstance.pop_next_job returning j
pop_next_job(j) == ready(j) /\ popped' = popped \cup {j}

\* WorkflowInstance.pop_next_job raising NoJobs
NoJobs == ~ \E j \in JobIds : ready(j)

regenerate_fresh(ch) == instances' = built(ch) /\ popped' = {}

\* WorkflowInstance.regenerate for the chunk sets ch: the instance set is
\* rebuilt; regeneration is incremental, the jobs handed out stay so
regenerate(ch) == instances' = built(ch) /\ popped' = popped

\* the jobs of the graph that consume resource r
ConsumersOf(r) == { c \in instances : r \in Inputs(c) }

workflow_cleanup_off == FALSE

\* run: WorkflowInstance(..., cleanup=self.cleanup)
workflow_cleanup == cleanup

cleanup_pass_eager(ex, done) ==
  [r \in Resources |->
     IF workflow_cleanup /\ r \in Temps /\ ConsumersOf(r) \cap done # {}
     THEN FALSE ELSE ex[r]]

\* the cleanup pass over the files ex when the jobs done have completed: a
\* temporary resource goes once every job consuming it has completed
cleanup_pass(ex, done) ==
  [r \in Resources |->
     IF /\ workflow_cleanup
        /\ r \in Temps
        /\ ConsumersOf(r) # {}
        /\ ConsumersOf(r) \subseteq done
     THEN FALSE ELSE ex[r]]

\* WorkflowInstance.notify_completed, the files being ex
notify_completed(j, ex) ==
  /\ completed' = completed \cup {j}
  /\ exists' = cleanup_pass(ex, completed \cup {j})

complete_noshelf(j, ex) == notify_completed(j, ex) /\ UNCHANGED job_shelf

\* JobInstance.complete, the files being ex
complete(j, ex) ==
  /\ job_shelf' = [job_shelf EXCEPT ![j] = TRUE]
  /\ notify_completed(j, ex)

\* the resources the cleanup pass removes from the files ex
removed_by(ex, done) == { r \in Resources : ex[r] /\ ~ cleanup_pass(ex, done)[r] }

\* the files after job j has pushed its outputs
written(j) == [r \in Resources |-> IF r \in Outputs(j) THEN TRUE ELSE exists[r]]

\* the chunk sets after the update of job j that emitted the chunks C
stored(j, C) ==
  IF check_require_regenerate(j) THEN [chunks EXCEPT ![SplitAxis] = C] ELSE chunks

\* JobCallable.updatedb at time t: every output of the job gets a record, a
\* split output stores the chunks C of its axis
updatedb(j, t, C) ==
  /\ createtime' = [r \in Resources |-> IF r \in Outputs(j) THEN t ELSE createtime[r]]
  /\ chunks' = stored(j, C)

finalize_noregen(j, t, C) == updatedb(j, t, C) /\ UNCHANGED << instances, popped >>

\* JobInstance.finalize
finalize(j, t, C) ==
  /\ updatedb(j, t, C)
  /\ IF check_require_regenerate(j)
     THEN regenerate(stored(j, C))
     ELSE UNCHANGED << instances, popped >>

\* JobInstance.finalize raises: the regeneration finds a cycle
finalize_raises(j, C) ==
  check_require_regenerate(j) /\ DependencyCycle(built(stored(j, C)))

\* ------------------------------------------------------- scheduler.py
must_run_always(j) == TRUE

must_run_no_repopulate(j) == out_of_date(j) \/ rerun

\* the submit-or-skip condition of _add_jobs
must_run(j) == out_of_date(j) \/ rerun \/ (repopulate /\ output_missing(j))

raises_never(finished) == FALSE

\* _wait_next_job raises IncompleteJobException
raises(finished) == ~ finished

after_exception_continue == "add"

\* run: an exception in the main loop leaves it for the drain loop
after_exception == "drain"

main_loop_break_never == FALSE

\* run: "if exec_queue.empty: break"
main_loop_break == exec_queue = {}

run_result_ok(f) == "returned"

\* run: "if failing: raise PipelineException"
run_result(f) == IF f THEN "failed" ELSE "returned"

lock_acquired_always == TRUE

\* Scheduler.PipelineLock: os.mkdir fails when the directory exists
lock_acquired == ~ lock

lock_on_failure_rmdir == FALSE

\* Scheduler.PipelineLock: the lock directory after a failed os.mkdir; the
\* exception is raised before the try/finally that removes the directory
lock_on_failure == lock

released_on_return(how) == how = "returned"

\* Scheduler.PipelineLock: the finally clause runs os.rmdir however the
\* body of the with statement is left
released(how) == TRUE

Fresh == [j \in JobIds |-> 0]

queue_has_room_always == TRUE

\* _add_jobs: "while exec_queue.length < self.max_jobs"
queue_has_room == Cardinality(exec_queue) < max_jobs

duplicate_dir_never(j) == FALSE

duplicate_dir_queued(j) == \E k \in exec_queue : temps_dir(k) = temps_dir(j)

\* _add_job: "if job.temps_dir in self._job_temps_dirs"
duplicate_dir(j) == temps_dir(j) \in job_temps_dirs

received_any(j) == TRUE

\* _wait_next_job: exec_queue.wait() names a job that was added to the queue
\* and has not been returned yet; job_id, job = exec_queue.wait()
received(j) == j \in exec_queue

\* the chunk sets a job of the workflow can emit
EmitSets == IF wf \in SplitShapes THEN SUBSET GraphChunks ELSE {{}}

\* the chunk sets a finishing job can have emitted for its split output
Emits(j) == IF check_require_regenerate(j) THEN SUBSET GraphChunks ELSE {{}}

\* JobInstance.create_callable, JobCallable.__init__: a callable that has not
\* been called; stage is the statement of __call__ its worker executes next
create_callable ==
  [stage |-> "open", finished |-> FALSE, propagated |-> FALSE,
   raised_in |-> "none", traceback |-> FALSE]

\* a job instance that has not been submitted has no callable
no_callable == [create_callable EXCEPT !.stage = "none"]

callables0 == [j \in JobIds |-> no_callable]

\* run up to the main loop: directories, lock, workflow instance; a cycle
\* found by the constructor of WorkflowInstance leaves run before the try
StartRun(rr, rp, tk) ==
  /\ pc = "idle"
  /\ hist.run_no < MaxRuns
  /\ hist.lastResult # "interrupted"
  /\ rerun' = rr
  /\ repopulate' = rp
  /\ tick' = tk
  /\ job_temps_dirs' = {}
  /\ exec_queue' = {}
  /\ IF lock_acquired
     THEN LET graph == built(chunks)
              cycle == DependencyCycle(graph) IN
          /\ instances' = graph
          /\ popped' = {}
          /\ completed' = {}
          /\ ctx' = [j \in JobIds |-> def_ctx]
          /\ retry_idx' = [j \in JobIds |-> 0]
          /\ failing' = FALSE
          /\ lock' = IF cycle THEN ~ released("error") ELSE TRUE
          /\ pc' = IF cycle THEN "idle" ELSE "add"
          /\ hist' = [hist EXCEPT
               !.run_no = @ + 1,
               !.lastResult = IF cycle THEN "DependencyCycle" ELSE "running",
               !.prev = [result |-> hist.lastResult, done |-> completed,
                         failed |-> { j \in JobIds : hist.nfail[j] > 0 },
                         clean |-> ~ hist.changed],
               !.changed = FALSE, !.nsubmit = Fresh, !.nfail = Fresh,
               !.finished_ok = {}, !.skipped = {}, !.failure_seen = FALSE,
               !.interrupts = 0, !.raised = {}, !.nfinal = Fresh,
               !.removed = {}, !.with_cleanup = cleanup, !.drained = {}]
     ELSE /\ hist' = [hist EXCEPT !.run_no = @ + 1, !.lastResult = "locked"]
          /\ UNCHANGED << lock, popped, completed, ctx, retry_idx, failing, pc,
                          instances >>
  /\ callables' = callables0
  /\ UNCHANGED << settings, is_required_downstream, ood, rt, procs, made, fs,
                  job_shelf, createtime, exists, clock, chunks >>

\* one iteration of the loop of _add_jobs that pops job j
AddJob(j) ==
  /\ pc = "add"
  /\ queue_has_room
  /\ pop_next_job(j)
  /\ IF must_run(j)
     THEN IF duplicate_dir(j)
          THEN /\ failing' = TRUE
               /\ pc' = after_exception
               /\ hist' = [hist EXCEPT !.failure_seen = TRUE,
                                       !.raised = @ \cup {"ValueError"}]
               /\ UNCHANGED << job_temps_dirs, exec_queue, completed, job_shelf,
                               exists, callables >>
          ELSE /\ job_temps_dirs' = job_temps_dirs \cup {temps_dir(j)}
               /\ exec_queue' = exec_queue \cup {j}
               /\ callables' = [callables EXCEPT ![j] = create_callable]
               /\ hist' = [hist EXCEPT !.nsubmit[j] = @ + 1]
               /\ UNCHANGED << completed, job_shelf, failing, pc, exists >>
     ELSE /\ complete(j, exists)
          /\ hist' = [hist EXCEPT
               !.skipped = @ \cup {j},
               !.removed = @ \cup removed_by(exists, completed \cup {j})]
          /\ UNCHANGED << job_temps_dirs, exec_queue, failing, pc, callables >>
  /\ UNCHANGED << settings, is_required_downstream, ood, rt, procs, made, fs,
                  rerun, repopulate, tick, lock, createtime, clock,
                  ctx, retry_idx, chunks, instances >>

\* _add_jobs returns (queue full or NoJobs); run tests exec_queue.empty
AddJobsReturn ==
  /\ pc = "add"
  /\ (~ queue_has_room \/ NoJobs)
  /\ pc' = IF main_loop_break THEN "drain" ELSE "wait"
  /\ UNCHANGED << config, rerun, repopulate, tick, failing, lock, job_temps_dirs,
                  exec_queue, popped, completed, job_shelf, createtime, exists,
                  clock, ctx, retry_idx, hist, chunks, instances >>

\* _wait_next_job: exec_queue.wait() returns job j with received.finished,
\* the job having emitted the chunks C for its split output
wait_next_job(j, finished, C) ==
  /\ received(j)
  /\ C \in Emits(j)
  /\ exec_queue' = exec_queue \ {j}
  /\ IF raises(finished)
     THEN /\ hist' = [hist EXCEPT !.nfail[j] = @ + 1, !.failure_seen = TRUE]
          /\ UNCHANGED << completed, job_shelf, createtime, exists, clock, chunks,
                          instances, popped >>
     ELSE /\ clock' = clock + tick
          /\ finalize(j, clock + tick, C)
          /\ IF finalize_raises(j, C)
             THEN /\ exists' = written(j)
                  /\ hist' = [hist EXCEPT
                       !.nfinal[j] = @ + 1, !.failure_seen = TRUE,
                       !.raised = @ \cup {"DependencyCycle"}]
                  /\ UNCHANGED << completed, job_shelf >>
             ELSE /\ complete(j, written(j))
                  /\ hist' = [hist EXCEPT
                       !.nfinal[j] = @ + 1,
                       !.drained = IF pc = "drain" THEN @ \cup {j} ELSE @,
                       !.finished_ok = IF finished THEN @ \cup {j} ELSE @,
                       !.nfail[j] = IF finished THEN @ ELSE @ + 1,
                       !.removed = @ \cup removed_by(written(j), completed \cup {j})]

\* _wait_next_job leaves by an exception
wait_raises(j, finished, C) == raises(finished) \/ finalize_raises(j, C)

\* run, main loop: _wait_next_job
WaitNextJob(j, finished, C) ==
  /\ pc = "wait"
  /\ wait_next_job(j, finished, C)
  /\ IF wait_raises(j, finished, C)
     THEN failing' = TRUE /\ pc' = after_exception
     ELSE failing' = failing /\ pc' = "add"
  /\ UNCHANGED << config, rerun, repopulate, tick, lock, job_temps_dirs,
                  ctx, retry_idx >>

\* run, drain loop: _wait_next_job, exceptions logged
DrainNextJob(j, finished, C) ==
  /\ pc = "drain"
  /\ wait_next_job(j, finished, C)
  /\ UNCHANGED << config, rerun, repopulate, tick, pc, failing, lock, job_temps_dirs,
                  ctx, retry_idx >>

\* run: the drain loop is over, the lock is released, run returns or raises
EndRun ==
  /\ pc = "drain"
  /\ exec_queue = {}
  /\ lock' = FALSE
  /\ pc' = "idle"
  /\ hist' = [hist EXCEPT !.lastResult = run_result(failing)]
  /\ UNCHANGED << config, rerun, repopulate, tick, failing, job_temps_dirs,
                  exec_queue, popped, completed, job_shelf, createtime, exists,
                  clock, ctx, retry_idx, chunks, instances >>

\* run: KeyboardInterrupt in the main loop or the drain loop is re-raised
Interrupt ==
  /\ pc \in {"add", "wait", "drain"}
  /\ lock' = FALSE
  /\ pc' = "idle"
  /\ hist' = [hist EXCEPT !.lastResult = "interrupted", !.interrupts = @ + 1]
  /\ UNCHANGED << config, rerun, repopulate, tick, failing, job_temps_dirs,
                  exec_queue, popped, completed, job_shelf, createtime, exists,
                  clock, ctx, retry_idx, chunks, instances >>

\* ------------------------------------------------------- environment
\* between two runs the user rewrites a workflow input (one change of a file
\* between two runs)
TouchInput(r) ==
  /\ pc = "idle"
  /\ hist.env < MaxEnv
  /\ ~ hist.changed
  /\ hist.lastResult \in {"returned", "failed"}
  /\ hist.run_no < MaxRuns
  /\ \A p \in JobIds : r \notin Outputs(p)
  /\ \E c \in JobIds : r \in Inputs(c)
  /\ clock' = clock + 1
  /\ createtime' = [createtime EXCEPT ![r] = clock + 1]
  /\ hist' = [hist EXCEPT !.env = @ + 1, !.changed = TRUE]
  /\ UNCHANGED << config, rerun, repopulate, tick, pc, failing, lock, job_temps_dirs,
                  exec_queue, popped, completed, job_shelf, exists, ctx,
                  retry_idx, chunks, instances >>

\* between runs the user deletes the file of a produced resource
RemoveFile(r) ==
  /\ pc = "idle"
  /\ hist.env < MaxEnv
  /\ ~ hist.changed
  /\ hist.lastResult \in {"returned", "failed"}
  /\ hist.run_no < MaxRuns
  /\ \E p \in JobIds : r \in Outputs(p)
  /\ exists[r]
  /\ exists' = [exists EXCEPT ![r] = FALSE]
  /\ hist' = [hist EXCEPT !.env = @ + 1, !.changed = TRUE]
  /\ UNCHANGED << config, rerun, repopulate, tick, pc, failing, lock, job_temps_dirs,
                  exec_queue, popped, completed, job_shelf, createtime, clock,
                  ctx, retry_idx, chunks, instances >>

\* the scheduler processes of the concurrent runs
Procs == 1..NProcs

\* nothing evaluated, retried or started yet
ood0 ==
  [job |-> "none", verdict |-> FALSE,
   explanation |-> [headline |-> "none", new |-> {}, old |-> {}, missing |-> {}]]
rt0 ==
  [ncalls |-> Fresh,
   phase |-> [j \in JobIds |-> "new"],
   exc |-> [j \in JobIds |-> << >>],
   last |-> [j \in JobIds |->
              [called |-> FALSE, idx_in |-> 0, ctx_in |-> def_ctx, ret |-> FALSE]]]
procs0 ==
  [p \in Procs |->
     [pc |-> "idle", runs |-> 0, constructed |-> FALSE, submitted |-> 0,
      result |-> "none"]]

\* no axis has chunks, nothing instantiated or compared yet
chunks0 == [a \in Axes |-> {}]
made0 == [axis |-> "none", axes |-> {}, emitted |-> {}, count |-> 0, calls |-> 0]
fs0 ==
  [new |-> None, newmtime |-> 0, existing |-> None, mtime |-> 0, calls |-> 0,
   last |-> [called |-> FALSE, new |-> None, newmtime |-> 0, existing |-> None,
             mtime |-> 0, renamed |-> FALSE]]

\* Scheduler.run has not been called
SchedulerIdle ==
  /\ rerun = FALSE
  /\ repopulate = FALSE
  /\ pc = "idle"
  /\ failing = FALSE
  /\ job_temps_dirs = {}
  /\ exec_queue = {}
  /\ popped = {}
  /\ completed = {}
  /\ clock = 0
  /\ tick = 0
  /\ hist = [run_no |-> 0, env |-> 0, lastResult |-> "none", changed |-> FALSE,
             nsubmit |-> Fresh, nfail |-> Fresh, finished_ok |-> {},
             skipped |-> {}, failure_seen |-> FALSE, interrupts |-> 0,
             raised |-> {}, nfinal |-> Fresh, removed |-> {},
             with_cleanup |-> FALSE, drained |-> {},
             prev |-> [result |-> "none", done |-> {}, failed |-> {},
                       clean |-> TRUE]]
  /\ chunks = chunks0
  /\ instances = {}

scheduler == << rerun, repopulate, pc, failing, job_temps_dirs, exec_queue,
                popped, completed, clock, tick, hist, chunks, instances >>

Init ==
  /\ wf \in DOMAIN Workflows
  /\ def_ctx \in CtxSet
  /\ max_jobs \in 1..MaxJobsBound
  /\ rerun = FALSE
  /\ repopulate = FALSE
  /\ pc = "idle"
  /\ failing = FALSE
  /\ lock = FALSE
  /\ job_temps_dirs = {}
  /\ exec_queue = {}
  /\ popped = {}
  /\ completed = {}
  /\ job_shelf = [j \in JobIds |-> FALSE]
  /\ createtime = [r \in Resources |-> IF r = "in" THEN 0 ELSE None]
  /\ exists = [r \in Resources |-> r = "in"]
  /\ clock = 0
  /\ tick = 0
  /\ ctx = [j \in JobIds |-> def_ctx]
  /\ retry_idx = [j \in JobIds |-> 0]
  /\ hist = [run_no |-> 0, env |-> 0, lastResult |-> "none", changed |-> FALSE,
             nsubmit |-> Fresh, nfail |-> Fresh, finished_ok |-> {},
             skipped |-> {}, failure_seen |-> FALSE, interrupts |-> 0,
             raised |-> {}, nfinal |-> Fresh, removed |-> {},
             with_cleanup |-> FALSE, drained |-> {},
             prev |-> [result |-> "none", done |-> {}, failed |-> {},
                       clean |-> TRUE]]
  /\ chunks = chunks0
  /\ instances = {}
  /\ is_required_downstream = [j \in JobIds |-> FALSE]
  /\ ood = ood0
  /\ rt = rt0
  /\ procs = procs0
  /\ cleanup = FALSE
  /\ made = made0
  /\ fs = fs0
  /\ callables = callables0

Next ==
  \/ \E rr \in BOOLEAN, rp \in BOOLEAN, tk \in {0, 1} : StartRun(rr, rp, tk)
  \/ \E j \in JobIds : AddJob(j)
  \/ AddJobsReturn
  \/ \E j \in JobIds, finished \in BOOLEAN, C \in EmitSets : WaitNextJob(j, finished, C)
  \/ \E j \in JobIds, finished \in BOOLEAN, C \in EmitSets : DrainNextJob(j, finished, C)
  \/ EndRun
  \/ Interrupt
  \/ \E r \in Resources : TouchInput(r)
  \/ \E r \in Resources : RemoveFile(r)

Spec == Init /\ [][Next]_vars

\* the scheduler's steps are sequential code and run on; every submitted job
\* is eventually returned by exec_queue.wait()
FairSpec ==
  /\ Init /\ [][Next]_vars
  /\ WF_vars(\E j \in JobIds : AddJob(j))
  /\ WF_vars(AddJobsReturn)
  /\ WF_vars(\E j \in JobIds, finished \in BOOLEAN, C \in EmitSets :
               WaitNextJob(j, finished, C))
  /\ WF_vars(\E j \in JobIds, finished \in BOOLEAN, C \in EmitSets :
               DrainNextJob(j, finished, C))
  /\ WF_vars(EndRun)

\* ------------------------------------------- JobInstance.retry on its own
\* Job contexts with and without num_retry, a factor and an increment for
\* the metric mem; -1 stands for "no such entry".
Opt(c, key, v) == IF v < 0 THEN c ELSE c @@ (key :> v)

RetryCtxSet ==
  { Opt(Opt(Opt([mem |-> 1], "num_retry", n), "mem_retry_factor", f),
        "mem_retry_increment", d) :
      n \in (-1)..MaxNumRetry, f \in {-1, 2, 3}, d \in {-1, 1, 2} }

InitRetry ==
  /\ wf = "chain"
  /\ def_ctx \in RetryCtxSet
  /\ max_jobs = 1
  /\ SchedulerIdle
  /\ lock = FALSE
  /\ job_shelf = [j \in JobIds |-> FALSE]
  /\ createtime = [r \in Resources |-> IF r = "in" THEN 0 ELSE None]
  /\ exists = [r \in Resources |-> r = "in"]
  /\ ctx = [j \in JobIds |-> def_ctx]
  /\ retry_idx = [j \in JobIds |-> 0]
  /\ chunks = chunks0
  /\ instances = {}
  /\ is_required_downstream = [j \in JobIds |-> FALSE]
  /\ ood = ood0
  /\ rt = rt0
  /\ procs = procs0
  /\ cleanup = FALSE
  /\ made = made0
  /\ fs = fs0
  /\ callables = callables0

\* an attempt of job instance j starts: its exception directory is made.
\* Attempts are the first one and one after each retry() that returned True.
Attempt(j) ==
  /\ rt.phase[j] \in {"new", "retried"}
  /\ rt' = [rt EXCEPT !.phase[j] = "running",
                      !.exc[j] = Append(@, create_exc_dir(j))]
  /\ UNCHANGED << settings, made, fs, callables, scheduler, lock, job_shelf, createtime, exists,
                  ctx, retry_idx, is_required_downstream, ood, procs >>

\* the attempt of j failed (or an earlier retry was refused): retry() is called
RetryCall(j) ==
  /\ rt.phase[j] \in {"running", "refused"}
  /\ rt.ncalls[j] < MaxCalls
  /\ retry(j)
  /\ rt' = [rt EXCEPT !.ncalls[j] = @ + 1,
                      !.phase[j] = IF retry_result(j) THEN "retried" ELSE "refused",
                      !.last[j] = [called |-> TRUE, idx_in |-> retry_idx[j],
                                   ctx_in |-> ctx[j], ret |-> retry_result(j)]]
  /\ UNCHANGED << settings, made, fs, callables, scheduler, lock, job_shelf, createtime, exists,
                  is_required_downstream, ood, procs >>

NextRetry ==
  \/ \E j \in JobIds : Attempt(j)
  \/ \E j \in JobIds : RetryCall(j)

SpecRetry == InitRetry /\ [][NextRetry]_vars

\* ------------------------------- runs of several processes on one directory
Inside == { p \in Procs : procs[p].pc \in {"construct", "loop"} }

InitLock ==
  /\ wf \in DOMAIN Workflows
  /\ def_ctx = [mem |-> 1]
  /\ max_jobs = 1
  /\ SchedulerIdle
  /\ lock = FALSE
  /\ job_shelf = [j \in JobIds |-> FALSE]
  /\ createtime = [r \in Resources |-> IF r = "in" THEN 0 ELSE None]
  /\ exists = [r \in Resources |-> r = "in"]
  /\ ctx = [j \in JobIds |-> def_ctx]
  /\ retry_idx = [j \in JobIds |-> 0]
  /\ chunks = chunks0
  /\ instances = {}
  /\ is_required_downstream = [j \in JobIds |-> FALSE]
  /\ ood = ood0
  /\ rt = rt0
  /\ procs = procs0
  /\ cleanup = FALSE
  /\ made = made0
  /\ fs = fs0
  /\ callables = callables0

\* process p calls run: directories, then "with self.PipelineLock()"
Enter(p) ==
  /\ procs[p].pc = "idle"
  /\ procs[p].runs < MaxLockRuns
  /\ IF lock_acquired
     THEN /\ lock' = TRUE
          /\ procs' = [procs EXCEPT ![p] =
               [pc |-> "construct", runs |-> @.runs + 1, constructed |-> FALSE,
                submitted |-> 0, result |-> "running"]]
     ELSE /\ lock' = lock_on_failure
          /\ procs' = [procs EXCEPT ![p] =
               [pc |-> "idle", runs |-> @.runs + 1, constructed |-> FALSE,
                submitted |-> 0, result |-> "already_running"]]
  /\ UNCHANGED << settings, made, fs, callables, scheduler, job_shelf, createtime, exists, ctx,
                  retry_idx, is_required_downstream, ood, rt >>

\* resource manager, node manager and workflow instance are constructed
Construct(p) ==
  /\ procs[p].pc = "construct"
  /\ procs' = [procs EXCEPT ![p].pc = "loop", ![p].constructed = TRUE]
  /\ UNCHANGED << settings, made, fs, callables, scheduler, lock, job_shelf, createtime, exists,
                  ctx, retry_idx, is_required_downstream, ood, rt >>

\* the construction raises (an exception or a KeyboardInterrupt)
ConstructRaises(p, how) ==
  /\ procs[p].pc = "construct"
  /\ lock' = IF released(how) THEN FALSE ELSE lock
  /\ procs' = [procs EXCEPT ![p].pc = "idle", ![p].result = how]
  /\ UNCHANGED << settings, made, fs, callables, scheduler, job_shelf, createtime, exists, ctx,
                  retry_idx, is_required_downstream, ood, rt >>

\* the loops of run submit job j and finalize it
Work(p, j) ==
  /\ procs[p].pc = "loop"
  /\ ~ job_shelf[j]
  /\ \A u \in Upstream(j) : job_shelf[u]
  /\ job_shelf' = [job_shelf EXCEPT ![j] = TRUE]
  /\ procs' = [procs EXCEPT ![p].submitted = @ + 1]
  /\ UNCHANGED << settings, made, fs, callables, scheduler, lock, createtime, exists, ctx,
                  retry_idx, is_required_downstream, ood, rt >>

\* run is left: it returns, raises PipelineException or re-raises
\* KeyboardInterrupt
Leave(p, how) ==
  /\ procs[p].pc = "loop"
  /\ lock' = IF released(how) THEN FALSE ELSE lock
  /\ procs' = [procs EXCEPT ![p].pc = "idle", ![p].result = how]
  /\ UNCHANGED << settings, made, fs, callables, scheduler, job_shelf, createtime, exists, ctx,
                  retry_idx, is_required_downstream, ood, rt >>

NextLock ==
  \/ \E p \in Procs : Enter(p)
  \/ \E p \in Procs : Construct(p)
  \/ \E p \in Procs, how \in {"error", "interrupted"} : ConstructRaises(p, how)
  \/ \E p \in Procs, j \in JobIds : Work(p, j)
  \/ \E p \in Procs, how \in {"returned", "failed", "interrupted"} : Leave(p, how)

SpecLock == InitLock /\ [][NextLock]_vars

\* ------------------------------------- out_of_date of a job instance alone
\* A job instance of any shape, with any createtime record of its resources
\* (None for no record) and any is_required_downstream flag.
InitOOD ==
  /\ wf \in DOMAIN Shapes
  /\ def_ctx = [mem |-> 1]
  /\ max_jobs = 1
  /\ SchedulerIdle
  /\ lock = FALSE
  /\ job_shelf = [j \in JobIds |-> FALSE]
  /\ createtime \in [Resources -> None..MaxTime]
  /\ exists = [r \in Resources |-> createtime[r] # None]
  /\ ctx = [j \in JobIds |-> def_ctx]
  /\ retry_idx = [j \in JobIds |-> 0]
  /\ is_required_downstream \in [JobIds -> BOOLEAN]
  /\ ood = ood0
  /\ rt = rt0
  /\ procs = procs0
  /\ cleanup = FALSE
  /\ made = made0
  /\ fs = fs0
  /\ callables = callables0

\* out_of_date and explain_out_of_date are called on job instance j
Evaluate(j) ==
  /\ ood' = [job |-> j, verdict |-> out_of_date(j),
             explanation |-> explain_out_of_date(j)]
  /\ UNCHANGED << settings, made, fs, callables, scheduler, lock, job_shelf, createtime, exists,
                  ctx, retry_idx, is_required_downstream, rt, procs >>

NextOOD == \E j \in JobIds : Evaluate(j)

SpecOOD == InitOOD /\ [][NextOOD]_vars

\* ------------------------------------ runs of workflows with a split or a cycle
\* the chunk sets are the node shelf of the pipeline directory and outlive a
\* run, as the job shelf does
InitGraph ==
  /\ wf \in {"split", "latecycle", "cyclic", "samedir"}
  /\ def_ctx = [mem |-> 1]
  /\ max_jobs \in IF wf = "samedir" THEN 1..MaxJobsBound ELSE {MaxJobsBound}
  /\ lock = FALSE
  /\ job_shelf = [j \in JobIds |-> FALSE]
  /\ createtime = [r \in Resources |-> IF r = "in" THEN 0 ELSE None]
  /\ exists = [r \in Resources |-> r = "in"]
  /\ ctx = [j \in JobIds |-> def_ctx]
  /\ retry_idx = [j \in JobIds |-> 0]
  /\ SchedulerIdle
  /\ is_required_downstream = [j \in JobIds |-> FALSE]
  /\ ood = ood0
  /\ rt = rt0
  /\ procs = procs0
  /\ cleanup = FALSE
  /\ made = made0
  /\ fs = fs0
  /\ callables = callables0

SpecGraph == InitGraph /\ [][Next]_vars

\* ---------------------------- create_job_instances after a split, on its own
NodeChunks == 1..MaxChunks

InitNodes ==
  /\ wf = "split"
  /\ def_ctx = [mem |-> 1]
  /\ max_jobs = 1
  /\ lock = FALSE
  /\ job_shelf = [j \in JobIds |-> FALSE]
  /\ createtime = [r \in Resources |-> IF r = "in" THEN 0 ELSE None]
  /\ exists = [r \in Resources |-> r = "in"]
  /\ ctx = [j \in JobIds |-> def_ctx]
  /\ retry_idx = [j \in JobIds |-> 0]
  /\ SchedulerIdle
  /\ is_required_downstream = [j \in JobIds |-> FALSE]
  /\ ood = ood0
  /\ rt = rt0
  /\ procs = procs0
  /\ cleanup = FALSE
  /\ made = made0
  /\ fs = fs0
  /\ callables = callables0

\* a split job stores the chunks C of axis a and the regeneration
\* instantiates a definition over the axes axs, a among them
Emit(a, C, axs) ==
  /\ made.calls < MaxEmits
  /\ a \in axs
  /\ chunks' = [chunks EXCEPT ![a] = C]
  /\ made' = [axis |-> a, axes |-> axs, emitted |-> C,
              count |-> Cardinality(create_job_instances(chunks', axs)),
              calls |-> made.calls + 1]
  /\ UNCHANGED << settings, is_required_downstream, ood, rt, procs, fs, callables, rerun,
                  repopulate, pc, failing, job_temps_dirs, exec_queue, popped,
                  completed, clock, tick, hist, instances, lock, job_shelf,
                  createtime, exists, ctx, retry_idx >>

NextNodes == \E a \in Axes, C \in SUBSET NodeChunks, axs \in SUBSET Axes : Emit(a, C, axs)

SpecNodes == InitNodes /\ [][NextNodes]_vars

\* ------------------------------------------------ runs with cleanup on or off
\* workflows in which every temporary resource has a consuming job
InitClean ==
  /\ wf \in {"chain", "fanin", "diamond"}
  /\ def_ctx = [mem |-> 1]
  /\ max_jobs = MaxJobsBound
  /\ cleanup \in BOOLEAN
  /\ lock = FALSE
  /\ job_shelf = [j \in JobIds |-> FALSE]
  /\ createtime = [r \in Resources |-> IF r = "in" THEN 0 ELSE None]
  /\ exists = [r \in Resources |-> r = "in"]
  /\ ctx = [j \in JobIds |-> def_ctx]
  /\ retry_idx = [j \in JobIds |-> 0]
  /\ SchedulerIdle
  /\ is_required_downstream = [j \in JobIds |-> FALSE]
  /\ ood = ood0
  /\ rt = rt0
  /\ procs = procs0
  /\ made = made0
  /\ fs = fs0
  /\ callables = callables0

\* the caller assigns Scheduler.cleanup between two runs
SetCleanup(b) ==
  /\ pc = "idle"
  /\ hist.run_no > 0
  /\ cleanup # b
  /\ cleanup' = b
  /\ UNCHANGED << wf, def_ctx, max_jobs, outside, scheduler, lock, job_shelf,
                  createtime, exists, ctx, retry_idx >>

NextClean ==
  \/ \E rr \in BOOLEAN, rp \in BOOLEAN, tk \in {0, 1} : StartRun(rr, rp, tk)
  \/ \E j \in JobIds : AddJob(j)
  \/ AddJobsReturn
  \/ \E j \in JobIds, finished \in BOOLEAN, C \in EmitSets : WaitNextJob(j, finished, C)
  \/ \E j \in JobIds, finished \in BOOLEAN, C \in EmitSets : DrainNextJob(j, finished, C)
  \/ EndRun
  \/ Interrupt
  \/ \E r \in Resources : TouchInput(r)
  \/ \E r \in Resources : RemoveFile(r)
  \/ \E b \in BOOLEAN : SetCleanup(b)

SpecClean == InitClean /\ [][NextClean]_vars

\* ----------------------------------- helpers.overwrite_if_different, alone
\* a file is absent (None), present but not readable, or has a content
Unreadable == -2
Contents == 0..MaxContent

\* helpers.md5_file: a digest of the content; distinct contents can collide
md5_file(c) == c % 3

do_copy_always(new, existing) == TRUE

\* overwrite_if_different: do_copy stays True when md5_file(existing) raises
\* IOError, else it is the comparison of the two digests
do_copy(new, existing) ==
  IF existing \in {None, Unreadable} THEN TRUE
  ELSE md5_file(existing) # md5_file(new)

InitFiles ==
  /\ wf = "chain"
  /\ def_ctx = [mem |-> 1]
  /\ max_jobs = 1
  /\ lock = FALSE
  /\ job_shelf = [j \in JobIds |-> FALSE]
  /\ createtime = [r \in Resources |-> IF r = "in" THEN 0 ELSE None]
  /\ exists = [r \in Resources |-> r = "in"]
  /\ ctx = [j \in JobIds |-> def_ctx]
  /\ retry_idx = [j \in JobIds |-> 0]
  /\ SchedulerIdle
  /\ is_required_downstream = [j \in JobIds |-> FALSE]
  /\ ood = ood0
  /\ rt = rt0
  /\ procs = procs0
  /\ cleanup = FALSE
  /\ made = made0
  /\ fs \in { [fs0 EXCEPT !.existing = e] : e \in {None, Unreadable} \cup Contents }
  /\ callables = callables0

\* the caller writes the file new_filename with content c; the file is absent
\* or left over from a call that did not rename it
WriteNew(c) ==
  /\ fs.calls < MaxOverwrites
  /\ \/ fs.new = None
     \/ fs.last.called /\ ~ fs.last.renamed /\ fs.last.newmtime = fs.newmtime
  /\ fs' = [fs EXCEPT !.new = c, !.newmtime = Max({fs.mtime, fs.newmtime}) + 1]
  /\ UNCHANGED << settings, is_required_downstream, ood, rt, procs, made,
                  callables, scheduler, lock, job_shelf, createtime, exists, ctx, retry_idx >>

\* overwrite_if_different(new_filename, existing_filename), new_filename
\* being a file the caller has written
overwrite_if_different ==
  /\ fs.new # None
  /\ fs.calls < MaxOverwrites
  /\ LET renamed == do_copy(fs.new, fs.existing)
         called == [called |-> TRUE, new |-> fs.new, newmtime |-> fs.newmtime,
                    existing |-> fs.existing, mtime |-> fs.mtime,
                    renamed |-> renamed]
     IN  fs' = IF renamed
               THEN [fs EXCEPT !.existing = fs.new, !.mtime = fs.newmtime,
                               !.new = None, !.calls = @ + 1, !.last = called]
               ELSE [fs EXCEPT !.calls = @ + 1, !.last = called]
  /\ UNCHANGED << settings, is_required_downstream, ood, rt, procs, made,
                  callables, scheduler, lock, job_shelf, createtime, exists, ctx, retry_idx >>

NextFiles ==
  \/ \E c \in Contents : WriteNew(c)
  \/ overwrite_if_different

SpecFiles == InitFiles /\ [][NextFiles]_vars

\* ------------------------------------- JobCallable.__call__ run by a worker
\* the statements of the try block of __call__ that can raise, in order
TryStages == << "resolve", "pull", "func", "push" >>

after_stage(st) ==
  IF st = "resolve" THEN "pull"
  ELSE IF st = "pull" THEN "func"
  ELSE IF st = "func" THEN "push"
  ELSE "finally"

\* what exec_queue.wait() hands over as received.finished: the flag of the
\* callable; after __call__ left by an exception also False
delivered(j) ==
  IF callables[j].propagated
  THEN {FALSE, callables[j].finished}
  ELSE {callables[j].finished}

InitCall ==
  /\ wf \in {"chain", "fanin"}
  /\ def_ctx = [mem |-> 1]
  /\ max_jobs = MaxJobsBound
  /\ lock = FALSE
  /\ job_shelf = [j \in JobIds |-> FALSE]
  /\ createtime = [r \in Resources |-> IF r = "in" THEN 0 ELSE None]
  /\ exists = [r \in Resources |-> r = "in"]
  /\ ctx = [j \in JobIds |-> def_ctx]
  /\ retry_idx = [j \in JobIds |-> 0]
  /\ SchedulerIdle
  /\ is_required_downstream = [j \in JobIds |-> FALSE]
  /\ ood = ood0
  /\ rt = rt0
  /\ procs = procs0
  /\ cleanup = FALSE
  /\ made = made0
  /\ fs = fs0
  /\ callables = callables0

\* a step of the worker of job j changes the callable and nothing else
WorkerStep(j, c) ==
  /\ j \in exec_queue
  /\ callables' = [callables EXCEPT ![j] = c]
  /\ UNCHANGED << settings, is_required_downstream, ood, rt, procs, made, fs,
                  scheduler, lock, job_shelf, createtime, exists, ctx,
                  retry_idx >>

\* __call__: the with statement opens job.out and job.err, outside the try
OpenLogs(j, ok) ==
  /\ callables[j].stage = "open"
  /\ WorkerStep(j, IF ok
                   THEN [callables[j] EXCEPT !.stage = "resolve"]
                   ELSE [callables[j] EXCEPT !.stage = "exited",
                                             !.propagated = TRUE,
                                             !.raised_in = "open"])

\* __call__, try block: deeptransform(resolve_arg), pull, func, push, then
\* finished = True
TryStep(j, ok) ==
  LET st == callables[j].stage IN
  /\ \E i \in DOMAIN TryStages : TryStages[i] = st
  /\ WorkerStep(j, IF ok
                   THEN [callables[j] EXCEPT !.stage = after_stage(st),
                                             !.finished = (st = "push")]
                   ELSE [callables[j] EXCEPT !.stage = "except",
                                             !.raised_in = st])

\* __call__, except: the traceback goes to job.err
Except(j) ==
  /\ callables[j].stage = "except"
  /\ WorkerStep(j, [callables[j] EXCEPT !.stage = "finally", !.traceback = TRUE])

\* __call__, finally: stdout and stderr restored, the two log stores pushed
Finally(j, ok) ==
  /\ callables[j].stage = "finally"
  /\ WorkerStep(j, IF ok
                   THEN [callables[j] EXCEPT !.stage = "exited"]
                   ELSE [callables[j] EXCEPT !.stage = "exited",
                                             !.propagated = TRUE,
                                             !.raised_in = "logs"])

\* main loop: exec_queue.wait() returns the job whose worker is done
ReceiveCallable(j, C) ==
  /\ callables[j].stage = "exited"
  /\ \E finished \in delivered(j) : WaitNextJob(j, finished, C)

\* drain loop: the same
DrainCallable(j, C) ==
  /\ callables[j].stage = "exited"
  /\ \E finished \in delivered(j) : DrainNextJob(j, finished, C)

NextCall ==
  \/ \E rr \in BOOLEAN, rp \in BOOLEAN, tk \in {0, 1} : StartRun(rr, rp, tk)
  \/ \E j \in JobIds : AddJob(j)
  \/ AddJobsReturn
  \/ \E j \in JobIds, ok \in BOOLEAN : OpenLogs(j, ok)
  \/ \E j \in JobIds, ok \in BOOLEAN : TryStep(j, ok)
  \/ \E j \in JobIds : Except(j)
  \/ \E j \in JobIds, ok \in BOOLEAN : Finally(j, ok)
  \/ \E j \in JobIds, C \in EmitSets : ReceiveCallable(j, C)
  \/ \E j \in JobIds, C \in EmitSets : DrainCallable(j, C)
  \/ EndRun

SpecCall == InitCall /\ [][NextCall]_vars

\* ------------------------------------------------------------- claims
InRun == hist.lastResult = "running"
RunEnded == pc = "idle" /\ hist.lastResult \in {"returned", "failed", "interrupted"}
AllJobsHaveIO == \A j \in JobIds : Inputs(j) # {} /\ Outputs(j) # {}
Consumers(S) == { j \in JobIds : Upstream(j) \cap S # {} }
\* the jobs of S and every job downstream of them
Dependents(S) == S \cup Consumers(S) \cup Consumers(Consumers(S))

\* C1: every job handed out by pop_next_job has all its producers completed:
\* each producer was skipped as up to date or received finished, is recorded
\* in the job shelf and is not in the execution queue.
C1_DependencyOrder ==
  \A j \in popped : \A p \in Upstream(j) :
    /\ p \in completed
    /\ p \in hist.finished_ok \cup hist.skipped
    /\ p \notin exec_queue
    /\ job_shelf[p]

C1_Witness ==
  \E j \in exec_queue : \E p \in Upstream(j) : InRun /\ p \in hist.finished_ok

\* C2: once a failure was seen in a run, run never goes back to _add_jobs
\* and the execution queue gets no new job for the rest of the run.
C2_NoSubmitAfterFailure ==
  [][(InRun /\ hist.failure_seen) =>
       (pc' # "add" /\ exec_queue' \subseteq exec_queue /\ hist'.nsubmit = hist.nsubmit)]_vars

C2_Witness ==
  InRun /\ failing /\ pc = "drain" /\ \E j \in JobIds : ready(j)

C4_TwoStageInterrupt ==
  (pc = "idle" /\ hist.lastResult = "interrupted") => hist.interrupts >= 2

\* C5: when run returns without raising, the execution queue is empty and
\* every job is completed (finalized or skipped) and True in the job shelf.
C5_SuccessMeansDone ==
  (pc = "idle" /\ hist.lastResult = "returned") =>
    /\ exec_queue = {}
    /\ \A j \in JobIds :
         j \in completed /\ job_shelf[j] /\ j \in hist.finished_ok \cup hist.skipped

C5_Witness ==
  /\ pc = "idle" /\ hist.lastResult = "returned"
  /\ hist.finished_ok # {} /\ hist.skipped # {}

\* C6: with every submitted job eventually returned, run terminates; the
\* main loop is left without a failure exactly when no job is ready and the
\* execution queue is empty.
C6_Termination ==
  /\ (pc # "idle") ~> (pc = "idle")
  /\ [][(pc = "add" /\ pc' \in {"wait", "drain"} /\ ~ failing') =>
          ((pc' = "drain") <=> (NoJobs /\ exec_queue = {}))]_vars

C6_Witness ==
  /\ pc = "idle" /\ hist.lastResult = "returned" /\ hist.run_no = 1
  /\ hist.finished_ok = JobIds

\* C7 (amended): after a successful run of a workflow whose jobs all have at
\* least one input and one output, a second run with unchanged files and
\* rerun and repopulate off submits no job.
C7_Idempotence ==
  (hist.prev.result = "returned" /\ hist.prev.clean /\ ~ rerun /\ ~ repopulate
     /\ AllJobsHaveIO)
    => \A j \in JobIds : hist.nsubmit[j] = 0

C7_Witness ==
  /\ hist.prev.result = "returned" /\ hist.prev.clean /\ ~ rerun /\ ~ repopulate
  /\ AllJobsHaveIO
  /\ pc = "idle" /\ hist.lastResult = "returned" /\ hist.skipped = JobIds

\* C7 as stated: the second run submits no job, for every workflow.
C7_Original ==
  (hist.prev.result = "returned" /\ hist.prev.clean /\ ~ rerun /\ ~ repopulate)
    => \A j \in JobIds : hist.nsubmit[j] = 0

\* C8 (amended): after a failed run of a workflow whose jobs all have at
\* least one input and one output, the next run (unchanged files, rerun and
\* repopulate off) submits no job that completed in the failed run.
C8_Resume ==
  (hist.prev.result = "failed" /\ hist.prev.clean /\ ~ rerun /\ ~ repopulate
     /\ AllJobsHaveIO)
    => \A j \in hist.prev.done : hist.nsubmit[j] = 0

C8_Witness ==
  /\ hist.prev.result = "failed" /\ hist.prev.clean /\ ~ rerun /\ ~ repopulate
  /\ AllJobsHaveIO
  /\ hist.prev.done # {}
  /\ pc = "idle" /\ hist.lastResult = "returned"
  /\ hist.skipped = hist.prev.done /\ hist.finished_ok = JobIds \ hist.prev.done

\* C8 as stated: the next run submits only the failed job and its dependents
\* that had not completed, and no job that completed in the failed run.
C8_Original ==
  (hist.prev.result = "failed" /\ hist.prev.clean /\ ~ rerun /\ ~ repopulate)
    => \A j \in JobIds : hist.nsubmit[j] > 0 =>
         (j \notin hist.prev.done /\ j \in Dependents(hist.prev.failed))

\* C9: a job with num_retry = k whose every execution fails is submitted
\* k+1 times in the run.
C9_RetryBudget ==
  \A j \in JobIds :
    (pc = "idle" /\ hist.lastResult = "failed"
       /\ hist.nsubmit[j] > 0 /\ hist.nfail[j] = hist.nsubmit[j])
      => hist.nsubmit[j] = Get(def_ctx, "num_retry", 0) + 1

\* C10: when a job is received unfinished and retry() would succeed, the
\* scheduler resubmits it and does not enter the failing state.
C10_RetryInsteadOfFailing ==
  [][\A j \in JobIds :
       (~ failing /\ j \in exec_queue /\ hist'.nfail[j] > hist.nfail[j] /\ retry_result(j))
         => (~ failing' /\ j \in exec_queue')]_vars

\* b to the power n
RECURSIVE Pow(_, _)
Pow(b, n) == IF n = 0 THEN 1 ELSE b * Pow(b, n - 1)

HasFactor(c) == "mem_retry_factor" \in DOMAIN c
HasIncrement(c) == "mem_retry_increment" \in DOMAIN c

\* C11: retry() returns True only if retry_idx was below num_retry on entry
\* and a scaling entry of the context was applied (the metric changed); with
\* no _retry_factor or _retry_increment entry it returns False whatever
\* num_retry is.
C11_FutileRetryRefused ==
  \A j \in JobIds : rt.last[j].called =>
    LET l == rt.last[j] IN
      /\ l.ret => /\ l.idx_in < Get(l.ctx_in, "num_retry", 0)
                  /\ HasFactor(l.ctx_in) \/ HasIncrement(l.ctx_in)
                  /\ ctx[j].mem # l.ctx_in.mem
      /\ (~ HasFactor(l.ctx_in) /\ ~ HasIncrement(l.ctx_in)) =>
           (~ l.ret /\ ctx[j] = l.ctx_in)

C11_Witness ==
  \E j \in JobIds :
    /\ rt.last[j].called /\ ~ rt.last[j].ret
    /\ rt.last[j].idx_in < Get(rt.last[j].ctx_in, "num_retry", 0)
    /\ Get(def_ctx, "num_retry", 0) = MaxNumRetry
    /\ ~ HasFactor(def_ctx) /\ ~ HasIncrement(def_ctx)

\* the values of the metric after each scaling entry of context c was
\* applied to it once
ScaledOnce(c) ==
  LET m == c.mem IN
    IF HasFactor(c) /\ HasIncrement(c)
    THEN { m * c.mem_retry_factor + c.mem_retry_increment,
           (m + c.mem_retry_increment) * c.mem_retry_factor }
    ELSE IF HasFactor(c) THEN { m * c.mem_retry_factor }
    ELSE IF HasIncrement(c) THEN { m + c.mem_retry_increment }
    ELSE { m }

\* C12: a retry() that returned True multiplied the metric by its
\* _retry_factor and added its _retry_increment, each once, and left every
\* other context entry as it was; after n retries with only a factor f the
\* metric is initial * f^n, with only an increment d it is initial + n*d.
C12_RetryScaling ==
  \A j \in JobIds :
    /\ (rt.last[j].called /\ rt.last[j].ret) =>
         LET c == rt.last[j].ctx_in IN
           /\ ctx[j].mem \in ScaledOnce(c)
           /\ DOMAIN ctx[j] = DOMAIN c
           /\ \A key \in DOMAIN c \ {"mem"} : ctx[j][key] = c[key]
    /\ (HasFactor(def_ctx) /\ ~ HasIncrement(def_ctx)) =>
         ctx[j].mem = def_ctx.mem * Pow(def_ctx.mem_retry_factor, retry_idx[j])
    /\ (HasIncrement(def_ctx) /\ ~ HasFactor(def_ctx)) =>
         ctx[j].mem = def_ctx.mem + retry_idx[j] * def_ctx.mem_retry_increment
    /\ \A key \in DOMAIN def_ctx \ {"mem"} : ctx[j][key] = def_ctx[key]

C12_Witness ==
  \E j, k \in JobIds :
    /\ HasFactor(def_ctx) /\ ~ HasIncrement(def_ctx)
    /\ rt.last[j].ret /\ retry_idx[j] = 2
    /\ ctx[j].mem = def_ctx.mem * def_ctx.mem_retry_factor * def_ctx.mem_retry_factor
    /\ rt.last[k].ret /\ retry_idx[k] = 1

C14_MutualExclusion == Cardinality(Inside) <= 1

C14_Witness ==
  \E p, q \in Procs :
    /\ procs[p].pc = "loop" /\ procs[p].submitted > 0
    /\ procs[q].result = "already_running" /\ procs[q].pc = "idle"

\* C15: whenever a run that acquired the lock leaves run - by return, by
\* PipelineException, by KeyboardInterrupt or by an exception raised while
\* the workflow is constructed - the lock directory is gone, and it exists
\* only while some run is inside the locked section.
C15_LockReleased ==
  /\ [][\A p \in Procs :
          (p \in Inside /\ procs'[p].pc = "idle") => ~ lock']_vars
  /\ [](lock => Inside # {})

C15_Witness ==
  \E p, q \in Procs :
    /\ procs[p].pc = "idle" /\ procs[p].result = "error"
    /\ q \in Inside /\ procs[q].constructed

\* C16: a run that finds the lock directory present raises "Pipeline already
\* running" before the workflow is constructed: it submits no job, changes no
\* shelf and leaves the lock directory of the other run in place.
C16_FailedAcquireNoEffect ==
  /\ [][\A p \in Procs :
          (procs'[p] # procs[p] /\ procs'[p].result = "already_running") =>
            /\ lock /\ lock'
            /\ job_shelf' = job_shelf
            /\ createtime' = createtime
            /\ Inside' = Inside]_vars
  /\ [](\A p \in Procs : procs[p].result = "already_running" =>
          /\ procs[p].pc = "idle"
          /\ ~ procs[p].constructed
          /\ procs[p].submitted = 0)

C16_Witness ==
  \E p, q \in Procs :
    /\ procs[p].result = "already_running" /\ procs[p].runs = 1
    /\ procs[q].pc = "loop" /\ procs[q].submitted > 0 /\ lock

Evaluated(j) == ood.job = j
\* a job with inputs and outputs whose outputs all have a known mtime
KnownIO(j) ==
  /\ Inputs(j) # {} /\ Outputs(j) # {}
  /\ \A o \in Outputs(j) : createtime[o] # None
NewestInput(j) == Max({ createtime[r] : r \in Inputs(j) })
OldestOutput(j) == Min({ createtime[r] : r \in Outputs(j) })

\* C17: for a job with inputs and outputs whose output mtimes are all known,
\* out_of_date is true iff some input is strictly newer than some output
\* (newest input > oldest output); with newest input = oldest output the job
\* is not out of date.
C17_OutOfDateByMtime ==
  \A j \in JobIds : (Evaluated(j) /\ KnownIO(j)) =>
    /\ ood.verdict <=>
         \E i \in Inputs(j), o \in Outputs(j) : createtime[i] > createtime[o]
    /\ NewestInput(j) = OldestOutput(j) => ~ ood.verdict

C17_Witness ==
  \E j \in JobIds :
    /\ Evaluated(j) /\ KnownIO(j)
    /\ Cardinality(Inputs(j)) >= 2 /\ Cardinality(Outputs(j)) >= 2
    /\ NewestInput(j) = OldestOutput(j)
    /\ \E o \in Outputs(j) : createtime[o] > OldestOutput(j)
    /\ ~ ood.verdict

\* C18: out_of_date is true for every job without inputs, for every job
\* without outputs and for every job with an output of unknown mtime,
\* whatever the other mtimes are.
C18_AlwaysRun ==
  \A j \in JobIds :
    (Evaluated(j) /\ (\/ Inputs(j) = {}
                      \/ Outputs(j) = {}
                      \/ \E o \in Outputs(j) : createtime[o] = None))
      => ood.verdict

C18_Witness ==
  \E j \in JobIds :
    /\ Evaluated(j) /\ ood.verdict
    /\ Inputs(j) = {}
    /\ \A o \in Outputs(j) : createtime[o] = MaxTime

\* C19: a job with inputs and outputs, all output mtimes known and the
\* newest input not newer than the oldest output is out of date iff its
\* required_downstream flag is set, and the verdict of out_of_date agrees
\* with the one explain_out_of_date reports.
C19_RequiredDownstream ==
  \A j \in JobIds :
    (Evaluated(j) /\ KnownIO(j) /\ NewestInput(j) <= OldestOutput(j)) =>
      /\ ood.verdict <=> is_required_downstream[j]
      /\ ood.verdict <=> (ood.explanation.headline # "up to date")

\* C20: a job popped by _add_jobs is submitted to the execution queue iff
\* it is out of date, or rerun is set, or repopulate is set and one of its
\* outputs does not exist; otherwise it is marked complete without being
\* submitted, and a skipped job is never executed in the run.
C20_SubmitOrSkip ==
  /\ [][\A j \in JobIds : (j \notin popped /\ j \in popped') =>
          LET stale == \/ Inputs(j) = {} \/ Outputs(j) = {}
                       \/ \E o \in Outputs(j) : createtime[o] = None
                       \/ \E i \in Inputs(j), o \in Outputs(j) :
                            createtime[i] > createtime[o]
              submit == stale \/ rerun \/ (repopulate /\ \E o \in Outputs(j) : ~ exists[o])
          IN  /\ submit => /\ exec_queue' = exec_queue \cup {j}
                           /\ j \notin exec_queue
                           /\ hist'.nsubmit[j] = hist.nsubmit[j] + 1
                           /\ completed' = completed
              /\ ~ submit => /\ exec_queue' = exec_queue
                             /\ j \in completed' /\ job_shelf'[j]
                             /\ hist'.nsubmit = hist.nsubmit]_vars
  /\ [](\A j \in hist.skipped : hist.nsubmit[j] = 0 /\ j \notin hist.finished_ok)

C20_Witness ==
  \E j \in exec_queue :
    /\ InRun /\ repopulate /\ ~ rerun
    /\ ~ out_of_date(j) /\ output_missing(j)
    /\ hist.skipped # {}

\* a run that got the lock is over: it returned, raised the pipeline
\* failure or raised the dependency cycle of the constructor
RunOver == pc = "idle" /\ hist.lastResult \in {"returned", "failed", "DependencyCycle"}
NothingSubmitted == \A j \in JobIds : hist.nsubmit[j] = 0

\* C21: a run in which a dependency cycle was found, by the constructor or by
\* the regeneration after a split, ends with the dependency-cycle error at
\* its caller, and no job was submitted in it.
C21_CycleBeforeSubmission ==
  (RunOver /\ (hist.lastResult = "DependencyCycle" \/ "DependencyCycle" \in hist.raised))
    => (hist.lastResult = "DependencyCycle" /\ NothingSubmitted)

\* C22: an exception raised in the scheduling loop that is not a job failure
\* (dependency cycle of the regeneration, ValueError of the duplicate
\* directory) is the exception the caller of run gets.
C22_ErrorsPropagate ==
  (RunOver /\ hist.raised # {}) => hist.lastResult \in hist.raised

\* the instances of a definition over the split axis
OnAxis == { j \in JobIds : JobDefAxes(j) # {} }
SplitJobs == { j \in JobIds : check_require_regenerate(j) }
\* the database update of every split job has happened
SplitUpdated == \A s \in SplitJobs : \A r \in Outputs(s) : createtime[r] # None
\* a finished split job j is received in this step
SplitReceived(j) ==
  /\ j \in SplitJobs
  /\ j \in exec_queue /\ j \notin exec_queue'
  /\ hist'.nfinal[j] = hist.nfinal[j] + 1

\* C23: when a finished split job is received its chunks are stored, the
\* graph is then regenerated from the stored chunks, and the job is marked
\* complete only after a regeneration that did not raise; an instance on the
\* split axis exists only for a stored chunk of a split job whose database
\* update has happened, is handed out only then, and an axis without chunks
\* yields no instance.
C23_SplitOrdering ==
  /\ [](\A j \in OnAxis \cap instances :
          /\ JobNode(j)[SplitAxis] \in chunks[SplitAxis]
          /\ SplitUpdated)
  /\ [][\A j \in OnAxis \cap (popped' \ popped) :
          /\ j \in instances
          /\ JobNode(j)[SplitAxis] \in chunks[SplitAxis]
          /\ SplitUpdated]_vars
  /\ [](chunks[SplitAxis] = {} => OnAxis \cap instances = {})
  /\ [][\A j \in JobIds : SplitReceived(j) =>
          /\ \A r \in Outputs(j) : createtime'[r] # None
          /\ instances' = built(chunks')
          /\ OnAxis \cap instances' =
               { k \in OnAxis : JobNode(k)[SplitAxis] \in chunks'[SplitAxis] }
          /\ (j \in completed' => ~ DependencyCycle(instances'))
          /\ (~ DependencyCycle(instances') => j \in completed')
          /\ OnAxis \cap popped' \subseteq popped]_vars

\* a split job has just stored two chunks and both instances exist, none
\* handed out yet
C23_Witness ==
  /\ wf = "split" /\ pc = "add"
  /\ chunks[SplitAxis] = GraphChunks
  /\ OnAxis \subseteq instances
  /\ OnAxis \cap popped = {}
  /\ "step1" \in completed /\ hist.nfinal["step1"] = 1

RECURSIVE NodeCount(_, _)
\* the product of the sizes of the chunk sets ch of the axes
NodeCount(ch, axes) ==
  IF axes = {} THEN 1
  ELSE LET a == CHOOSE x \in axes : TRUE
       IN  Cardinality(ch[a]) * NodeCount(ch, axes \ {a})

Regenerated == \E j \in JobIds : SplitReceived(j)

C26_CleanupSafety ==
  /\ [][\A r \in Temps : (pc # "idle" /\ exists[r] /\ ~ exists'[r]) =>
          /\ cleanup
          /\ r \in hist'.removed
          /\ ConsumersOf(r) # {}
          /\ ConsumersOf(r) \subseteq completed']_vars
  /\ [][\A j \in exec_queue' \ exec_queue : Inputs(j) \cap hist.removed = {}]_vars
  /\ [](pc # "idle" => \A r \in hist.removed : ConsumersOf(r) \subseteq completed)

\* a temporary has been removed and a later job of the run is in the queue
C26_Witness ==
  /\ InRun /\ cleanup
  /\ "a" \in hist.removed /\ ~ exists["a"]
  /\ "step3" \in exec_queue

C28_OverwriteIfDifferent ==
  [][fs'.calls = fs.calls + 1 =>
       LET l == fs'.last
       IN  /\ l.new = fs.new /\ l.existing = fs.existing
           /\ l.renamed <=> (\/ fs.existing \notin Contents
                             \/ md5_file(fs.existing) # md5_file(fs.new))
           /\ l.renamed => /\ fs'.existing = fs.new
                           /\ fs'.mtime = fs.newmtime
                           /\ fs'.new = None
           /\ ~ l.renamed => /\ fs'.existing = fs.existing
                             /\ fs'.mtime = fs.mtime
                             /\ fs'.new = fs.new
           /\ fs.existing = fs.new => ~ l.renamed /\ fs'.mtime = fs.mtime]_vars

\* a second call with the same content as the file renamed into place by
\* the first: the newer file is not renamed, the old mtime stays
C28_Witness ==
  /\ fs.calls = 2
  /\ ~ fs.last.renamed
  /\ fs.last.existing = fs.last.new
  /\ fs.last.newmtime > fs.last.mtime
  /\ fs.mtime = fs.last.mtime

\* the exception directory of the current attempt of job j
exc_dir(j) == << temps_dir(j), create_exc_dir(j) >>

Count(S, j) == IF j \in S THEN 1 ELSE 0

\* C30: whatever the order of completions, a completion processed by
\* _wait_next_job is that of one job in the queue, submitted in this run and
\* not received since, and takes that job and no other out of the queue; a
\* job is finalized at most once per submission and never without one.
C30_CompletionIdentity ==
  /\ [][\A j \in JobIds :
          (hist'.nfinal[j] > hist.nfinal[j] \/ hist'.nfail[j] > hist.nfail[j]) =>
            /\ j \in exec_queue
            /\ hist.nsubmit[j] = 1 + hist.nfinal[j] + hist.nfail[j]
            /\ exec_queue' = exec_queue \ {j}
            /\ hist'.nfinal[j] + hist'.nfail[j] = hist.nfinal[j] + hist.nfail[j] + 1
            /\ \A k \in JobIds \ {j} :
                 hist'.nfinal[k] = hist.nfinal[k] /\ hist'.nfail[k] = hist.nfail[k]]_vars
  /\ [](\A j \in JobIds :
          /\ hist.nfinal[j] <= hist.nsubmit[j]
          /\ hist.nfinal[j] + hist.nfail[j] + Count(exec_queue, j) = hist.nsubmit[j])

\* two jobs were in the queue together and one has been received and
\* finalized while the other is still out
C30_Witness ==
  /\ wf = "split" /\ InRun
  /\ hist.nsubmit["step2"] = 1 /\ hist.nsubmit["step3"] = 1
  /\ hist.nfinal["step3"] = 1 /\ "step3" \in completed
  /\ "step2" \in exec_queue

\* job j is received with finished = False in this step
FailedReceived(j) ==
  /\ j \in exec_queue /\ j \notin exec_queue'
  /\ hist'.nfail[j] = hist.nfail[j] + 1

\* C31: a job received with finished = False is not finalized and not
\* completed: the step leaves the job shelf, the resource records, the files
\* and the set of completed jobs as they are; in the rest of the run the job
\* is not completed and none of its consumers is handed out.
C31_FailedNotRecorded ==
  /\ [][\A j \in JobIds : FailedReceived(j) =>
          /\ job_shelf' = job_shelf
          /\ createtime' = createtime
          /\ exists' = exists
          /\ chunks' = chunks
          /\ completed' = completed
          /\ popped' = popped
          /\ hist'.nfinal = hist.nfinal
          /\ hist'.finished_ok = hist.finished_ok]_vars
  /\ [](\A j \in JobIds : hist.nfail[j] > 0 =>
          /\ j \notin completed
          /\ j \notin hist.finished_ok
          /\ Consumers({j}) \cap popped = {})

\* the first job failed while another one was running; the run is over and
\* the consumer of both was never handed out
C31_Witness ==
  /\ wf = "fanin" /\ pc = "idle" /\ hist.lastResult = "failed"
  /\ hist.nfail["step1"] = 1 /\ ~ job_shelf["step1"]
  /\ "step2" \in completed
  /\ "step3" \notin popped

C33_ConcurrencyBound ==
  /\ [](Cardinality(exec_queue) <= max_jobs)
  /\ [][exec_queue' \ exec_queue # {} =>
          /\ Cardinality(exec_queue) < max_jobs
          /\ Cardinality(exec_queue' \ exec_queue) = 1
          /\ exec_queue \subseteq exec_queue']_vars
  /\ [][hist'.skipped # hist.skipped /\ hist'.run_no = hist.run_no =>
          /\ exec_queue' = exec_queue
          /\ Cardinality(exec_queue) < max_jobs]_vars

\* the queue is full with one job while another job is ready, and with a
\* job skipped before
C33_Witness ==
  /\ max_jobs = 1 /\ pc = "wait"
  /\ Cardinality(exec_queue) = 1
  /\ \E j \in JobIds : ready(j)
  /\ hist.skipped # {}

\* _add_jobs pops job j in this step and does not skip it
PoppedToRun(j) ==
  /\ pc = "add"
  /\ j \in popped' \ popped
  /\ j \notin hist'.skipped

\* C34: within a run the set of temps directories of submitted jobs only
\* grows; a job popped to run whose temps directory is in the set, whether
\* the earlier job is still queued or has completed, is not added to the
\* queue: ValueError is raised and the run goes to the drain loop, failing.
C34_DirectoryReuseRejected ==
  /\ [][hist'.run_no = hist.run_no => job_temps_dirs \subseteq job_temps_dirs']_vars
  /\ [][\A j \in JobIds : (PoppedToRun(j) /\ temps_dir(j) \in job_temps_dirs) =>
          /\ exec_queue' = exec_queue
          /\ hist'.nsubmit = hist.nsubmit
          /\ "ValueError" \in hist'.raised
          /\ failing'
          /\ pc' = "drain"]_vars
  /\ [][\A j \in exec_queue' \ exec_queue :
          /\ temps_dir(j) \notin job_temps_dirs
          /\ temps_dir(j) \in job_temps_dirs']_vars
  /\ []("ValueError" \in hist.raised /\ hist.lastResult = "running" => failing)

\* the job that used the directory had completed when the second job with
\* the same directory was refused
C34_Witness ==
  /\ wf = "samedir" /\ pc = "drain" /\ failing
  /\ exec_queue = {}
  /\ "ValueError" \in hist.raised
  /\ hist.drained = {}
  /\ \E j, k \in {"step2", "step3"} :
       /\ j # k
       /\ j \in hist.finished_ok /\ j \in completed
       /\ k \in popped /\ hist.nsubmit[k] = 0 /\ k \notin hist.skipped

\* retry() is called on job instance j in this step
RetryCalled(j) == rt'.ncalls[j] > rt.ncalls[j]

num_retry(j) == Get(ctx[j], "num_retry", 0)

\* C35: 0 <= retry_idx <= num_retry (0 when the context has no num_retry)
\* for every job instance after any sequence of retry() calls; a retry()
\* entered with retry_idx >= num_retry returns False and changes neither
\* retry_idx nor the context; a retry() entered below num_retry on a context
\* without scaling entry returns False and still adds one to retry_idx.
C35_RetryIndexBound ==
  /\ [](\A j \in JobIds : 0 <= retry_idx[j] /\ retry_idx[j] <= num_retry(j))
  /\ [][\A j \in JobIds : (RetryCalled(j) /\ retry_idx[j] >= num_retry(j)) =>
          /\ ~ rt'.last[j].ret
          /\ retry_idx' = retry_idx
          /\ ctx' = ctx]_vars
  /\ [][\A j \in JobIds :
          (RetryCalled(j) /\ retry_idx[j] < num_retry(j) /\ ScalingKeys(ctx[j]) = {}) =>
            /\ ~ rt'.last[j].ret
            /\ retry_idx'[j] = retry_idx[j] + 1
            /\ ctx' = ctx]_vars

\* two futile retries used up a budget of two, and the third call was refused
C35_Witness ==
  \E j \in JobIds :
    /\ ScalingKeys(def_ctx) = {}
    /\ Get(def_ctx, "num_retry", 0) = MaxNumRetry
    /\ retry_idx[j] = MaxNumRetry
    /\ rt.ncalls[j] = MaxNumRetry + 1
    /\ rt.last[j].called /\ ~ rt.last[j].ret
    /\ rt.last[j].idx_in = MaxNumRetry

\* C36: retry() on one job instance leaves the context of the definition and
\* the context and retry index of every other instance made from that
\* definition as they were; an instance that was never retried has the
\* definition's context.
C36_RetryPerInstance ==
  /\ [][\A j \in JobIds : RetryCalled(j) =>
          /\ def_ctx' = def_ctx
          /\ \A k \in JobIds \ {j} :
               ctx'[k] = ctx[k] /\ retry_idx'[k] = retry_idx[k]]_vars
  /\ [](\A j \in JobIds : rt.ncalls[j] = 0 => ctx[j] = def_ctx /\ retry_idx[j] = 0)

\* one instance was scaled by a granted retry while another instance of the
\* definition still has the definition's context
C36_Witness ==
  \E j, k \in JobIds :
    /\ rt.last[j].called /\ rt.last[j].ret
    /\ ctx[j].mem # def_ctx.mem
    /\ retry_idx[j] = 1
    /\ rt.ncalls[k] = 0 /\ ctx[k] = def_ctx /\ rt.phase[k] = "running"

\* __call__ of job j's callable has returned or raised
Exited(j) == callables[j].stage = "exited"

\* the worker of some job takes a step of __call__
WorkerActs == callables' # callables /\ hist'.run_no = hist.run_no /\ exec_queue' = exec_queue

\* the finished flag is set only by the statement after push, every stage of
\* the try block having passed, and is never cleared by a later statement
C37_FinishedFlag ==
  /\ [](\A j \in JobIds : callables[j].finished =>
          /\ callables[j].raised_in \in {"none", "logs"}
          /\ ~ callables[j].traceback
          /\ callables[j].stage \in {"finally", "exited"})
  /\ [](\A j \in JobIds :
          (Exited(j) /\ callables[j].raised_in \in {"open", "resolve", "pull", "func", "push"})
            => ~ callables[j].finished)

\* the worker's steps leave the shelves alone; the outputs of a submitted job
\* are recorded only when the main loop receives its finished callable
C37_ShelvesLater ==
  /\ [][WorkerActs =>
          /\ job_shelf' = job_shelf /\ createtime' = createtime
          /\ chunks' = chunks /\ completed' = completed]_vars
  /\ [][\A j \in JobIds :
          (hist'.nfinal[j] > hist.nfinal[j] /\ hist'.run_no = hist.run_no) =>
            /\ j \in exec_queue /\ j \notin exec_queue'
            /\ Exited(j) /\ callables[j].finished]_vars

\* C37: executing a JobCallable never propagates an exception to its caller;
\* finished becomes True only if argument resolution, pull, the user function
\* and push all completed without raising, and stays False otherwise; the
\* shelves change only when the main loop finalizes a finished callable.
C37_WorkerOutcome ==
  /\ [](\A j \in JobIds : ~ callables[j].propagated)
  /\ C37_FinishedFlag
  /\ C37_ShelvesLater

\* the log files of a submitted job could not be opened: __call__ raised
C37_Propagated ==
  \E j \in JobIds :
    /\ Exited(j) /\ callables[j].propagated
    /\ callables[j].raised_in = "open" /\ ~ callables[j].finished

====
